---- MODULE Spec2Model ----
(***************************************************************************)
(* A model of src/src/sha256.rs: the SHA-256 digest of a byte message per  *)
(* FIPS 180-4 (padding, block splitting, the compression loop and the      *)
(* big-endian serialization of the 8-word state).                          *)
(*                                                                         *)
(* Representation.  A byte is an integer in 0..255.  A u32 word is the     *)
(* pair <<hi, lo>> of its two 16-bit halves (value hi * 2^16 + lo): the    *)
(* model checker's integers are 32-bit signed, so a u32 does not fit in    *)
(* one of them.  All word arithmetic is modulo 2^32 on that pair.          *)
(***************************************************************************)
EXTENDS Integers, Sequences, FiniteSets, TLC

(***************************************************************************)
(* Words                                                                   *)
(***************************************************************************)

\* Word size in bits (const W; `let w = 32` in rotr and shr).
W == 32

\* 2^16, the modulus of one half of a word.
Half == 2 ^ 16

\* The word with value hi * 2^16 + lo.
Word(hi, lo) == <<hi, lo>>

Hi(x) == x[1]

Lo(x) == x[2]

\* u32::from_be_bytes([b0, b1, b2, b3])
from_be_bytes(b0, b1, b2, b3) == Word(b0 * 256 + b1, b2 * 256 + b3)

\* u32::to_be_bytes(x): most significant byte first.
to_be_bytes(x) ==
    << Hi(x) \div 256, Hi(x) % 256, Lo(x) \div 256, Lo(x) % 256 >>

\* &, | and ^ on single bits.
BitAnd(p, q) == p * q

BitOr(p, q) == p + q - p * q

BitXor(p, q) == (p + q) % 2

\* Bit k of a.
Bit(a, k) == (a \div (2 ^ k)) % 2

\* &, | and ^ on 4-bit values, bit by bit, as tables indexed by 16 * a + b + 1.
AndTab ==
    [ i \in 1..256 |->
        LET a == (i - 1) \div 16
            b == (i - 1) % 16
        IN  BitAnd(Bit(a, 0), Bit(b, 0)) + 2 * BitAnd(Bit(a, 1), Bit(b, 1))
            + 4 * BitAnd(Bit(a, 2), Bit(b, 2)) + 8 * BitAnd(Bit(a, 3), Bit(b, 3)) ]

OrTab ==
    [ i \in 1..256 |->
        LET a == (i - 1) \div 16
            b == (i - 1) % 16
        IN  BitOr(Bit(a, 0), Bit(b, 0)) + 2 * BitOr(Bit(a, 1), Bit(b, 1))
            + 4 * BitOr(Bit(a, 2), Bit(b, 2)) + 8 * BitOr(Bit(a, 3), Bit(b, 3)) ]

XorTab ==
    [ i \in 1..256 |->
        LET a == (i - 1) \div 16
            b == (i - 1) % 16
        IN  BitXor(Bit(a, 0), Bit(b, 0)) + 2 * BitXor(Bit(a, 1), Bit(b, 1))
            + 4 * BitXor(Bit(a, 2), Bit(b, 2)) + 8 * BitXor(Bit(a, 3), Bit(b, 3)) ]

\* The operator of table T on two 16-bit values, four bits at a time.
Bits16(T, a, b) ==
      T[16 * (a % 16) + (b % 16) + 1]
    + 16 * T[16 * ((a \div 16) % 16) + ((b \div 16) % 16) + 1]
    + 256 * T[16 * ((a \div 256) % 16) + ((b \div 256) % 16) + 1]
    + 4096 * T[16 * (a \div 4096) + (b \div 4096) + 1]

\* x & y, x | y, x ^ y and !x on u32.
And32(x, y) == Word(Bits16(AndTab, Hi(x), Hi(y)), Bits16(AndTab, Lo(x), Lo(y)))

Or32(x, y) == Word(Bits16(OrTab, Hi(x), Hi(y)), Bits16(OrTab, Lo(x), Lo(y)))

Xor32(x, y) == Word(Bits16(XorTab, Hi(x), Hi(y)), Bits16(XorTab, Lo(x), Lo(y)))

Not32(x) == Word(Half - 1 - Hi(x), Half - 1 - Lo(x))

\* x.wrapping_add(y): addition modulo 2^32.
wrapping_add(x, y) ==
    LET lo == Lo(x) + Lo(y)
        hi == Hi(x) + Hi(y) + (lo \div Half)
    IN  Word(hi % Half, lo % Half)

\* x.wrapping_shr(n): the shift amount is taken modulo 32, zero fill.
wrapping_shr(x, n) ==
    LET s == n % 32
    IN  IF s < 16
        THEN Word(Hi(x) \div (2 ^ s),
                  (Lo(x) \div (2 ^ s)) + (Hi(x) % (2 ^ s)) * (2 ^ (16 - s)))
        ELSE Word(0, Hi(x) \div (2 ^ (s - 16)))

\* x.wrapping_shl(n): the shift amount is taken modulo 32, high bits dropped.
wrapping_shl(x, n) ==
    LET s == n % 32
    IN  IF s < 16
        THEN Word(((Hi(x) * (2 ^ s)) % Half) + (Lo(x) \div (2 ^ (16 - s))),
                  (Lo(x) * (2 ^ s)) % Half)
        ELSE Word((Lo(x) * (2 ^ (s - 16))) % Half, 0)


\* What a call that panics (a failed assertion, an index out of range) yields
\* in place of a result.  No result of padding, message_to_blocks, a message
\* schedule, a round or a block's layer is empty, so the empty tuple is free to
\* stand for it; block_to_words of an empty block is empty too, and
\* compute_hash panics on it at its first schedule index all the same.
Panic == << >>

\* The rotation turned the other way: (x << n) | (x >> (w - n)).
rotr_Left(n, x) ==
    IF n < W
    THEN Or32(wrapping_shl(x, n), wrapping_shr(x, W - n))
    ELSE Panic

\* rotr(n, x): assert!(n < w); (x >> n) | (x << (w - n)).
rotr(n, x) ==
    IF n < W
    THEN Or32(wrapping_shr(x, n), wrapping_shl(x, W - n))
    ELSE Panic

\* shr(n, x): assert!(n < w); x >> n.
shr(n, x) == IF n < W THEN wrapping_shr(x, n) ELSE Panic

\* ch without the negation of x.
ch_NoNegation(x, y, z) == Xor32(And32(x, y), And32(x, z))

ch(x, y, z) == Xor32(And32(x, y), And32(Not32(x), z))

maj(x, y, z) == Xor32(Xor32(And32(x, y), And32(x, z)), And32(y, z))

\* The shift amounts each of the four functions below passes to rotr and shr.
sum_0_256_n == <<2, 13, 22>>

sum_1_256_n == <<6, 11, 25>>

delta_0_256_n == <<7, 18, 3>>

delta_1_256_n == <<17, 19, 10>>

sum_0_256(x) ==
    Xor32(Xor32(rotr(sum_0_256_n[1], x), rotr(sum_0_256_n[2], x)),
          rotr(sum_0_256_n[3], x))

sum_1_256(x) ==
    Xor32(Xor32(rotr(sum_1_256_n[1], x), rotr(sum_1_256_n[2], x)),
          rotr(sum_1_256_n[3], x))

delta_0_256(x) ==
    Xor32(Xor32(rotr(delta_0_256_n[1], x), rotr(delta_0_256_n[2], x)),
          shr(delta_0_256_n[3], x))

delta_1_256(x) ==
    Xor32(Xor32(rotr(delta_1_256_n[1], x), rotr(delta_1_256_n[2], x)),
          shr(delta_1_256_n[3], x))

\* Whether every assert!(n < w) reached from the four functions above holds.
ShiftAssertsHold ==
    \A a \in {sum_0_256_n, sum_1_256_n, delta_0_256_n, delta_1_256_n} :
        \A j \in 1..3 : a[j] < W

(***************************************************************************)
(* Constants                                                               *)
(***************************************************************************)

\* WORDS_K[t] of the source is WORDS_K[t + 1] here (sequences start at 1).
WORDS_K ==
    << Word(\h428a, \h2f98), Word(\h7137, \h4491), Word(\hb5c0, \hfbcf), Word(\he9b5, \hdba5),
       Word(\h3956, \hc25b), Word(\h59f1, \h11f1), Word(\h923f, \h82a4), Word(\hab1c, \h5ed5),
       Word(\hd807, \haa98), Word(\h1283, \h5b01), Word(\h2431, \h85be), Word(\h550c, \h7dc3),
       Word(\h72be, \h5d74), Word(\h80de, \hb1fe), Word(\h9bdc, \h06a7), Word(\hc19b, \hf174),
       Word(\he49b, \h69c1), Word(\hefbe, \h4786), Word(\h0fc1, \h9dc6), Word(\h240c, \ha1cc),
       Word(\h2de9, \h2c6f), Word(\h4a74, \h84aa), Word(\h5cb0, \ha9dc), Word(\h76f9, \h88da),
       Word(\h983e, \h5152), Word(\ha831, \hc66d), Word(\hb003, \h27c8), Word(\hbf59, \h7fc7),
       Word(\hc6e0, \h0bf3), Word(\hd5a7, \h9147), Word(\h06ca, \h6351), Word(\h1429, \h2967),
       Word(\h27b7, \h0a85), Word(\h2e1b, \h2138), Word(\h4d2c, \h6dfc), Word(\h5338, \h0d13),
       Word(\h650a, \h7354), Word(\h766a, \h0abb), Word(\h81c2, \hc92e), Word(\h9272, \h2c85),
       Word(\ha2bf, \he8a1), Word(\ha81a, \h664b), Word(\hc24b, \h8b70), Word(\hc76c, \h51a3),
       Word(\hd192, \he819), Word(\hd699, \h0624), Word(\hf40e, \h3585), Word(\h106a, \ha070),
       Word(\h19a4, \hc116), Word(\h1e37, \h6c08), Word(\h2748, \h774c), Word(\h34b0, \hbcb5),
       Word(\h391c, \h0cb3), Word(\h4ed8, \haa4a), Word(\h5b9c, \hca4f), Word(\h682e, \h6ff3),
       Word(\h748f, \h82ee), Word(\h78a5, \h636f), Word(\h84c8, \h7814), Word(\h8cc7, \h0208),
       Word(\h90be, \hfffa), Word(\ha450, \h6ceb), Word(\hbef9, \ha3f7), Word(\hc671, \h78f2) >>

IHV ==
    << Word(\h6a09, \he667), Word(\hbb67, \hae85), Word(\h3c6e, \hf372), Word(\ha54f, \hf53a),
       Word(\h510e, \h527f), Word(\h9b05, \h688c), Word(\h1f83, \hd9ab), Word(\h5be0, \hcd19) >>

(***************************************************************************)
(* Padding and block splitting                                             *)
(***************************************************************************)

\* n >> (8 * c) on an unsigned integer.
RECURSIVE ShrBytes(_, _)
ShrBytes(n, c) == IF c = 0 THEN n ELSE ShrBytes(n \div 256, c - 1)

\* The 8 bytes least significant first (to_le_bytes).
u64_to_le_bytes(n) == [ j \in 1..8 |-> ShrBytes(n, j - 1) % 256 ]

\* (n as u64).to_be_bytes(): 8 bytes, most significant first.
u64_to_be_bytes(n) == [ j \in 1..8 |-> ShrBytes(n, 8 - j) % 256 ]

\* vec![0u8; k]
Zeros(k) == [ j \in 1..k |-> 0 ]

\* k without the "1" bit counted: (l_bits + 1) written l_bits.
PadK_NoMarkerBit(l_bits) ==
    LET k_bits == (512 + 448 - (l_bits % 512)) % 512
    IN  k_bits \div 8

\* k without the outer reduction modulo 512.
PadK_NoOuterMod(l_bits) ==
    LET k_bits == 512 + 448 - ((l_bits + 1) % 512)
    IN  k_bits \div 8

\* k left in bits: the division by 8 forgotten.
PadK_InBits(l_bits) == (512 + 448 - ((l_bits + 1) % 512)) % 512

\* The zero-fill count k of padding.
PadK(l_bits) ==
    LET k_bits == (512 + 448 - ((l_bits + 1) % 512)) % 512
    IN  k_bits \div 8

\* The buffer padding builds, before its closing assertion.
PaddedBytes(message) ==
    LET l_bits == Len(message) * 8
    IN  ((message \o <<128>>) \o Zeros(PadK(l_bits))) \o u64_to_be_bytes(l_bits)

\* padding(message): the buffer, or Panic when assert_eq!(len % 64, 0) fails.
padding(message) ==
    LET padded == PaddedBytes(message)
    IN  IF Len(padded) % 64 = 0 THEN padded ELSE Panic

\* The allocation and fill steps of padding(message), in source order, each
\* with the number of bytes it asks for: message.to_vec() allocates the buffer
\* and copies the message, push(0x80) adds one byte, vec![0u8; k] allocates k
\* zero bytes, extend adds them to the buffer, extend_from_slice adds 8 bytes.
PaddingSteps(message) ==
    LET l_bits == Len(message) * 8
        k      == PadK(l_bits)
    IN  << <<"to_vec", Len(message)>>, <<"push", 1>>, <<"vec", k>>,
           <<"extend", k>>, <<"extend_from_slice", 8>> >>

\* message.chunks(64): consecutive 64-byte chunks, the last one shorter when
\* the length is no multiple of 64; no chunk for an empty slice.
Chunks64(message) ==
    LET n == (Len(message) + 63) \div 64
    IN  [ j \in 1..n |->
            SubSeq(message, 64 * (j - 1) + 1,
                   IF 64 * j <= Len(message) THEN 64 * j ELSE Len(message)) ]

\* message_to_blocks(message): the chunks, or Panic when the last chunk's
\* length (0 when there is none) is not 64.
message_to_blocks(message) ==
    LET blocks == Chunks64(message)
        last   == IF Len(blocks) = 0 THEN 0 ELSE Len(blocks[Len(blocks)])
    IN  IF last = 64 THEN blocks ELSE Panic

(***************************************************************************)
(* Hash computation                                                        *)
(***************************************************************************)

\* block_to_words(block): big-endian u32 of each 4-byte chunk, or Panic when
\* assert_eq!(block.len() % 4, 0) fails.
block_to_words(block) ==
    IF Len(block) % 4 = 0
    THEN [ j \in 1..(Len(block) \div 4) |->
             from_be_bytes(block[4 * j - 3], block[4 * j - 2],
                           block[4 * j - 1], block[4 * j]) ]
    ELSE Panic

\* The word w_t a pass of the loop `for index_t in 16..64` computes.
ScheduleWord(w, index_t) ==
    wrapping_add(
        wrapping_add(
            wrapping_add(delta_1_256(w[index_t - 2 + 1]), w[index_t - 7 + 1]),
            delta_0_256(w[index_t - 15 + 1])),
        w[index_t - 16 + 1])

\* One pass of the loop `for index_t in 16..64`: it reads w[index_t - 2],
\* w[index_t - 7], w[index_t - 15] and w[index_t - 16] and pushes one word;
\* Panic when an index is out of range of the Vec as it then stands.
SchedulePass(w, index_t) ==
    IF index_t - 2 >= Len(w) THEN Panic
    ELSE Append(w, ScheduleWord(w, index_t))

\* The passes lo, lo + 1, ..., hi - 1 of that loop in order (lo < hi), as the
\* passes of its first half followed by those of its second half; a panic in
\* a pass ends the loop.
RECURSIVE SchedulePasses(_, _, _)
SchedulePasses(w, lo, hi) ==
    IF w = Panic THEN Panic
    ELSE IF hi - lo = 1 THEN SchedulePass(w, lo)
    ELSE SchedulePasses(SchedulePasses(w, lo, (lo + hi) \div 2),
                        (lo + hi) \div 2, hi)

\* The message schedule without assert_eq!(message_schedule_w.len(), 64).
MessageSchedule_NoLenAssert(block) ==
    LET w == SchedulePasses(block_to_words(block), 16, 64)
    IN  IF w = Panic \/ ~ShiftAssertsHold THEN Panic ELSE w

\* The message schedule of one block, or Panic: block_to_words, the 48 pushes,
\* then assert_eq!(message_schedule_w.len(), 64).
MessageSchedule(block) ==
    LET w0 == block_to_words(block)
        w  == SchedulePasses(w0, 16, 64)
    IN  IF w = Panic \/ ~ShiftAssertsHold THEN Panic
        ELSE IF Len(w) = 64 THEN w ELSE Panic

\* The working variables (a, b, c, d, e, f, g, h), in that order, taken from
\* one hash value.
WorkingVars(hv) ==
    << hv[1], hv[2], hv[3], hv[4], hv[5], hv[6], hv[7], hv[8] >>

\* temp_1 of round t, from the working variables as they stand.
Temp1(v, w, t) ==
    wrapping_add(
        wrapping_add(
            wrapping_add(
                wrapping_add(v[8], sum_1_256(v[5])),
                ch(v[5], v[6], v[7])),
            WORDS_K[t + 1]),
        w[t + 1])

\* temp_2 of a round, from the working variables as they stand.
Temp2(v) == wrapping_add(sum_0_256(v[1]), maj(v[1], v[2], v[3]))

\* The eight assignments from a down to h: each reads what the one before it
\* has just written.
RoundAssign_TopDown(v, T1, T2) ==
    LET v1 == [v  EXCEPT ![1] = wrapping_add(T1, T2)]
        v2 == [v1 EXCEPT ![2] = v1[1]]
        v3 == [v2 EXCEPT ![3] = v2[2]]
        v4 == [v3 EXCEPT ![4] = v3[3]]
        v5 == [v4 EXCEPT ![5] = wrapping_add(v4[4], T1)]
        v6 == [v5 EXCEPT ![6] = v5[5]]
        v7 == [v6 EXCEPT ![7] = v6[6]]
    IN  [v7 EXCEPT ![8] = v7[7]]

\* The eight assignments of a round, one after another, in source order.
RoundAssign(v, T1, T2) ==
    LET v1 == [v  EXCEPT ![8] = v[7]]                    \* h = g
        v2 == [v1 EXCEPT ![7] = v1[6]]                   \* g = f
        v3 == [v2 EXCEPT ![6] = v2[5]]                   \* f = e
        v4 == [v3 EXCEPT ![5] = wrapping_add(v3[4], T1)] \* e = d + temp_1
        v5 == [v4 EXCEPT ![4] = v4[3]]                   \* d = c
        v6 == [v5 EXCEPT ![3] = v5[2]]                   \* c = b
        v7 == [v6 EXCEPT ![2] = v6[1]]                   \* b = a
    IN  [v7 EXCEPT ![1] = wrapping_add(T1, T2)]          \* a = temp_1 + temp_2

\* Round t of `for t in 0..64`: temp_1 and temp_2 from the variables as they
\* stand, then the eight assignments.  Panic when WORDS_K[t] or
\* message_schedule_w[t] is out of range.
Round(v, w, t) ==
    IF t >= Len(WORDS_K) \/ t >= Len(w) THEN Panic
    ELSE RoundAssign(v, Temp1(v, w, t), Temp2(v))

\* The rounds lo, lo + 1, ..., hi - 1 of `for t in 0..64` in order (lo < hi),
\* as the rounds of its first half followed by those of its second half; a
\* panic in a round ends the loop.
RECURSIVE Rounds(_, _, _, _)
Rounds(v, w, lo, hi) ==
    IF v = Panic THEN Panic
    ELSE IF hi - lo = 1 THEN Round(v, w, lo)
    ELSE Rounds(Rounds(v, w, lo, (lo + hi) \div 2), w, (lo + hi) \div 2, hi)

\* new_layer: the working variables added elementwise to the hash value the
\* block started from.
NewLayer(v, hv) ==
    << wrapping_add(v[1], hv[1]), wrapping_add(v[2], hv[2]),
       wrapping_add(v[3], hv[3]), wrapping_add(v[4], hv[4]),
       wrapping_add(v[5], hv[5]), wrapping_add(v[6], hv[6]),
       wrapping_add(v[7], hv[7]), wrapping_add(v[8], hv[8]) >>

\* One pass of `for (index_i, block_m_i) in blocks.iter().enumerate()`: the
\* layer pushed onto hash_value, or Panic.
BlockLayer(hv, block) ==
    LET w == MessageSchedule(block)
        v == IF w = Panic THEN Panic ELSE Rounds(WorkingVars(hv), w, 0, 64)
    IN  IF v = Panic THEN Panic ELSE NewLayer(v, hv)

\* The digest with each word's bytes least significant first (to_le_bytes).
DigestOf_LittleEndian(hv) ==
    [ j \in 1..32 |-> to_be_bytes(hv[((j - 1) \div 4) + 1])[4 - ((j - 1) % 4)] ]

\* The digest bytes of one hash value: each word's to_be_bytes, in order.
DigestOf(hv) ==
    [ j \in 1..32 |-> to_be_bytes(hv[((j - 1) \div 4) + 1])[((j - 1) % 4) + 1] ]

\* The loop over the blocks from index_i on: hash_value grows by one layer per
\* block; a panic in a block ends it.
RECURSIVE LayersFrom(_, _, _)
LayersFrom(hv, bs, i) ==
    IF hv = Panic THEN Panic
    ELSE IF i = Len(bs) THEN hv
    ELSE LET layer == BlockLayer(hv[i + 1], bs[i + 1])
         IN  LayersFrom(IF layer = Panic THEN Panic ELSE Append(hv, layer),
                        bs, i + 1)

\* compute_hash(blocks): the digest of the last layer, or Panic.
compute_hash(bs) ==
    LET hv == LayersFrom(<<IHV>>, bs, 0)
    IN  IF hv = Panic THEN Panic ELSE DigestOf(hv[Len(hv)])

\* sha256(message): padding, message_to_blocks, compute_hash, run alone.
sha256(m) ==
    LET p  == padding(m)
        bs == IF p = Panic THEN Panic ELSE message_to_blocks(p)
    IN  IF bs = Panic THEN Panic ELSE compute_hash(bs)

(***************************************************************************)
(* Inputs                                                                  *)
(***************************************************************************)

\* Messages of every length up to MaxLen are hashed, and a few longer ones.
MaxLen == 65

\* How many invocations may run at once.
NumInvocations == 2

Invocations == 1..NumInvocations

\* A message of length len: byte j is first + step * j (mod 256).
Pattern(first, step, len) == [ j \in 1..len |-> (first + step * (j - 1)) % 256 ]

\* "abc"
Abc == <<97, 98, 99>>

\* "abcdbcdecdefdefgefghfghighijhijkijkljklmklmnlmnomnopnopq"
Nist2 ==
    << 97, 98, 99, 100,   98, 99, 100, 101,   99, 100, 101, 102,
       100, 101, 102, 103,   101, 102, 103, 104,   102, 103, 104, 105,
       103, 104, 105, 106,   104, 105, 106, 107,   105, 106, 107, 108,
       106, 107, 108, 109,   107, 108, 109, 110,   108, 109, 110, 111,
       109, 110, 111, 112,   110, 111, 112, 113 >>

\* The lengths beyond MaxLen: around the two-block and three-block boundaries.
LongLens == {119, 120, 128}

Messages ==
    { Pattern(0, 0, len) : len \in (0..MaxLen) \cup LongLens }
        \cup { Pattern(97, 1, len) : len \in (0..MaxLen) \cup LongLens }
        \cup { Abc, Nist2 }

\* Block lengths other than 64 that a direct caller of compute_hash may pass.
MalformedLens == {0, 3, 56, 60, 62, 63, 65, 68}

\* Block sequences passed to compute_hash directly: none, well-formed ones,
\* and ones with a malformed block first or second.
BlockSeqs ==
    { << >>, << Pattern(0, 0, 64) >>, << Pattern(97, 1, 64), Pattern(1, 3, 64) >> }
        \cup { << Pattern(97, 1, len) >> : len \in MalformedLens }
        \cup { << Pattern(97, 1, 64), Pattern(1, 3, len) >> : len \in MalformedLens }

\* The messages hashed concurrently.
ParMessages == { Abc, Nist2 }

(***************************************************************************)
(* The invocations                                                         *)
(***************************************************************************)

\* Per invocation: which function was called, with what, where it stands,
\* and its locals (empty until the code binds them).
VARIABLES entry, message, pc, padded, blocks, hash_value, index_i, digest

\* Per invocation: the allocation and fill steps padding has performed.
VARIABLE steps

\* A private function called on its own: where the call stands ("none" when
\* there is no such call), and its arguments and locals.
VARIABLES unit_pc,
          rotr_n, rotr_x, rotr_ret,
          message_schedule_w, working, temp_1, temp_2, round_t,
          pad_len, pad_l_bits, pad_l_bits_1, pad_k, pad_length_field

\* The variables of such a call.
unit ==
    << unit_pc, rotr_n, rotr_x, rotr_ret,
       message_schedule_w, working, temp_1, temp_2, round_t,
       pad_len, pad_l_bits, pad_l_bits_1, pad_k, pad_length_field >>

vars ==
    << entry, message, pc, padded, blocks, hash_value, index_i, digest, steps,
       unit >>

\* No value: a local not bound yet.
None == << >>

\* An invocation that was never made.
Idle ==
    [entry |-> "none", message |-> None, pc |-> "idle", blocks |-> None]

\* sha256(m) about to run.
CallSha256(m) ==
    [entry |-> "sha256", message |-> m, pc |-> "padding", blocks |-> None]

\* compute_hash(bs) about to run.
CallComputeHash(bs) ==
    [entry |-> "compute_hash", message |-> None, pc |-> "compute_hash",
     blocks |-> bs]

\* The state in which the invocations are the calls c[1], c[2], ...
Start(c) ==
    /\ entry = [i \in Invocations |-> c[i].entry]
    /\ message = [i \in Invocations |-> c[i].message]
    /\ pc = [i \in Invocations |-> c[i].pc]
    /\ blocks = [i \in Invocations |-> c[i].blocks]
    /\ padded = [i \in Invocations |-> None]
    /\ hash_value = [i \in Invocations |-> None]
    /\ index_i = [i \in Invocations |-> 0]
    /\ digest = [i \in Invocations |-> None]
    /\ steps = [i \in Invocations |-> << >>]

\* No private function called on its own.
NoUnit ==
    /\ unit_pc = "none"
    /\ rotr_n = None
    /\ rotr_x = None
    /\ rotr_ret = None
    /\ message_schedule_w = None
    /\ working = None
    /\ temp_1 = None
    /\ temp_2 = None
    /\ round_t = None
    /\ pad_len = None
    /\ pad_l_bits = None
    /\ pad_l_bits_1 = None
    /\ pad_k = None
    /\ pad_length_field = None

\* One call, of sha256 or of compute_hash, and nothing else running.
Init ==
    \E c \in { CallSha256(m) : m \in Messages }
                \cup { CallComputeHash(bs) : bs \in BlockSeqs } :
        Start([i \in Invocations |-> IF i = 1 THEN c ELSE Idle]) /\ NoUnit

\* Every invocation a call of sha256, all running at once.
InitPar ==
    \E ms \in [Invocations -> ParMessages] :
        Start([i \in Invocations |-> CallSha256(ms[i])]) /\ NoUnit

\* let padded = padding(message);
PaddingStep(i) ==
    /\ pc[i] = "padding"
    /\ LET p == padding(message[i])
       IN  IF p = Panic
           THEN /\ pc' = [pc EXCEPT ![i] = "panic"]
                /\ UNCHANGED padded
           ELSE /\ pc' = [pc EXCEPT ![i] = "message_to_blocks"]
                /\ padded' = [padded EXCEPT ![i] = p]
    /\ steps' = [steps EXCEPT ![i] = PaddingSteps(message[i])]
    /\ UNCHANGED << entry, message, blocks, hash_value, index_i, digest, unit >>

\* message_to_blocks on one buffer that all invocations share: the padded
\* message of invocation 1.
MessageToBlocksStep_SharedBuffer(i) ==
    /\ pc[i] = "message_to_blocks"
    /\ LET bs == message_to_blocks(padded[1])
       IN  IF bs = Panic
           THEN /\ pc' = [pc EXCEPT ![i] = "panic"]
                /\ UNCHANGED blocks
           ELSE /\ pc' = [pc EXCEPT ![i] = "compute_hash"]
                /\ blocks' = [blocks EXCEPT ![i] = bs]
    /\ UNCHANGED << entry, message, padded, hash_value, index_i, digest, steps,
                    unit >>

\* let blocks = message_to_blocks(&padded);
MessageToBlocksStep(i) ==
    /\ pc[i] = "message_to_blocks"
    /\ LET bs == message_to_blocks(padded[i])
       IN  IF bs = Panic
           THEN /\ pc' = [pc EXCEPT ![i] = "panic"]
                /\ UNCHANGED blocks
           ELSE /\ pc' = [pc EXCEPT ![i] = "compute_hash"]
                /\ blocks' = [blocks EXCEPT ![i] = bs]
    /\ UNCHANGED << entry, message, padded, hash_value, index_i, digest, steps,
                    unit >>

\* compute_hash up to its loop: hash_value.push(IHV).
ComputeHashBegin(i) ==
    /\ pc[i] = "compute_hash"
    /\ hash_value' = [hash_value EXCEPT ![i] = <<IHV>>]
    /\ index_i' = [index_i EXCEPT ![i] = 0]
    /\ pc' = [pc EXCEPT ![i] = "blocks"]
    /\ UNCHANGED << entry, message, padded, blocks, digest, steps,
                    unit >>

\* hash_value[0], whatever the pass: every block compressed from IHV.
CurrentLayer_Initial(i) == hash_value[i][1]

\* hash_value[index_i], the layer a pass of the loop starts from.
CurrentLayer(i) == hash_value[i][index_i[i] + 1]

\* One pass of the loop over the blocks: hash_value.push(new_layer).
ProcessBlock(i) ==
    /\ pc[i] = "blocks"
    /\ index_i[i] < Len(blocks[i])
    /\ LET layer == BlockLayer(CurrentLayer(i), blocks[i][index_i[i] + 1])
       IN  IF layer = Panic
           THEN /\ pc' = [pc EXCEPT ![i] = "panic"]
                /\ UNCHANGED << hash_value, index_i >>
           ELSE /\ hash_value' = [hash_value EXCEPT ![i] = Append(@, layer)]
                /\ index_i' = [index_i EXCEPT ![i] = @ + 1]
                /\ UNCHANGED pc
    /\ UNCHANGED << entry, message, padded, blocks, digest, steps,
                    unit >>

\* After the loop: the digest of hash_value[hash_value.len() - 1], returned.
DigestStep(i) ==
    /\ pc[i] = "blocks"
    /\ index_i[i] = Len(blocks[i])
    /\ digest' = [digest EXCEPT ![i] = DigestOf(hash_value[i][Len(hash_value[i])])]
    /\ pc' = [pc EXCEPT ![i] = "done"]
    /\ UNCHANGED << entry, message, padded, blocks, hash_value, index_i, steps,
                    unit >>

\* One step of invocation i.
Step(i) ==
    \/ PaddingStep(i)
    \/ MessageToBlocksStep(i)
    \/ ComputeHashBegin(i)
    \/ ProcessBlock(i)
    \/ DigestStep(i)

Next == \E i \in Invocations : Step(i)

\* One call at a time.
Spec == Init /\ [][Next]_vars

\* Calls of sha256 running concurrently, their steps interleaved in any order.
SpecPar == InitPar /\ [][Next]_vars

\* The messages whose blocks the rounds are run on, one round a step.
RoundMessages == { Abc, Nist2, Pattern(0, 0, 64) }

\* The loop `for t in 0..64` about to run on block j of sha256(m): the message
\* schedule of that block, and a..h taken from hash_value[j - 1].
InitRounds ==
    /\ Start([i \in Invocations |-> Idle])
    /\ unit_pc = "rounds"
    /\ \E m \in RoundMessages :
          LET bs == message_to_blocks(padding(m))
              hv == LayersFrom(<<IHV>>, bs, 0)
          IN  \E j \in 1..Len(bs) :
                /\ message_schedule_w = MessageSchedule(bs[j])
                /\ working = WorkingVars(hv[j])
    /\ temp_1 = None
    /\ temp_2 = None
    /\ round_t = 0
    /\ rotr_n = None
    /\ rotr_x = None
    /\ rotr_ret = None
    /\ pad_len = None
    /\ pad_l_bits = None
    /\ pad_l_bits_1 = None
    /\ pad_k = None
    /\ pad_length_field = None

\* One pass of `for t in 0..64`.
RoundStep ==
    /\ unit_pc = "rounds"
    /\ round_t < 64
    /\ LET v == Round(working, message_schedule_w, round_t)
       IN  IF v = Panic
           THEN /\ unit_pc' = "panic"
                /\ UNCHANGED << working, temp_1, temp_2, round_t >>
           ELSE /\ temp_1' = Temp1(working, message_schedule_w, round_t)
                /\ temp_2' = Temp2(working)
                /\ working' = v
                /\ round_t' = round_t + 1
                /\ UNCHANGED unit_pc
    /\ UNCHANGED << entry, message, pc, padded, blocks, hash_value, index_i,
                    digest, steps, rotr_n, rotr_x, rotr_ret, message_schedule_w,
                    pad_len, pad_l_bits, pad_l_bits_1, pad_k, pad_length_field >>

NextRounds == RoundStep

\* The 64 rounds of one block, a round a step.
SpecRounds == InitRounds /\ [][NextRounds]_vars

(***************************************************************************)
(* The length arithmetic of padding, on a 64-bit target.  A usize or u64 is *)
(* four 16-bit limbs, the most significant first.                          *)
(***************************************************************************)

\* x * c on usize, for a small c: the product modulo 2^64, and what of it is
\* beyond 64 bits (0 when the product fits).
usize_mul(x, c) ==
    LET p0 == x[4] * c
        p1 == x[3] * c + (p0 \div Half)
        p2 == x[2] * c + (p1 \div Half)
        p3 == x[1] * c + (p2 \div Half)
    IN  << << p3 % Half, p2 % Half, p1 % Half, p0 % Half >>, p3 \div Half >>

\* x + c on usize, for a small c: the sum modulo 2^64, and the carry out.
usize_add(x, c) ==
    LET s0 == x[4] + c
        s1 == x[3] + (s0 \div Half)
        s2 == x[2] + (s1 \div Half)
        s3 == x[1] + (s2 \div Half)
    IN  << << s3 % Half, s2 % Half, s1 % Half, s0 % Half >>, s3 \div Half >>

\* What an arithmetic operator of the source yields from r = <<value modulo
\* 2^64, overflow>>: the value when it fits; when it does not, a panic in a
\* build with overflow checks and the wrapped value in one without.
Outcomes(r) == IF r[2] = 0 THEN { r[1] } ELSE { Panic, r[1] }

\* x % 512 on usize.
usize_mod_512(x) == x[4] % 512

\* The zero-fill count k from l_bits + 1 as computed.
PadKOf(l_bits_1) ==
    LET k_bits == (512 + 448 - usize_mod_512(l_bits_1)) % 512
    IN  k_bits \div 8

\* l_bits as u32, then its bytes in 8: the upper 32 bits lost.
u64_limbs_to_be_bytes_u32(x) ==
    << 0, 0, 0, 0, x[3] \div 256, x[3] % 256, x[4] \div 256, x[4] % 256 >>

\* (l_bits as u64).to_be_bytes() on the limbs.
u64_limbs_to_be_bytes(x) ==
    << x[1] \div 256, x[1] % 256, x[2] \div 256, x[2] % 256,
       x[3] \div 256, x[3] % 256, x[4] \div 256, x[4] % 256 >>

\* 2^e + d as a usize, for e in 0..63 and d in {-1, 0, 1} (d = 1 only for
\* e >= 1).
UsizeNear(e, d) ==
    [ j \in 1..4 |->
        LET limb == 4 - j
        IN  IF d = -1
            THEN IF limb < e \div 16 THEN Half - 1
                 ELSE IF limb = e \div 16 THEN (2 ^ (e % 16)) - 1
                 ELSE 0
            ELSE (IF limb = e \div 16 THEN 2 ^ (e % 16) ELSE 0)
                 + (IF limb = 0 THEN d ELSE 0) ]

\* The message lengths the arithmetic is run on: around every power of two,
\* up to the longest slice there can be (isize::MAX = 2^63 - 1 bytes).
PadLens ==
    { UsizeNear(e, -1) : e \in 0..63 }
        \cup { UsizeNear(e, 0) : e \in 0..62 }
        \cup { UsizeNear(e, 1) : e \in 1..62 }

\* padding about to run on a message of pad_len bytes.
InitPadLen ==
    /\ Start([i \in Invocations |-> Idle])
    /\ unit_pc = "l_bits"
    /\ pad_len \in PadLens
    /\ pad_l_bits = None
    /\ pad_l_bits_1 = None
    /\ pad_k = None
    /\ pad_length_field = None
    /\ rotr_n = None
    /\ rotr_x = None
    /\ rotr_ret = None
    /\ message_schedule_w = None
    /\ working = None
    /\ temp_1 = None
    /\ temp_2 = None
    /\ round_t = None

\* What the steps of padding's arithmetic leave alone.
PadLenFrame ==
    UNCHANGED << entry, message, pc, padded, blocks, hash_value, index_i,
                 digest, steps, rotr_n, rotr_x, rotr_ret, message_schedule_w,
                 working, temp_1, temp_2, round_t, pad_len >>

\* let l_bits = message.len() * 8;
PadLBitsStep ==
    /\ unit_pc = "l_bits"
    /\ \E v \in Outcomes(usize_mul(pad_len, 8)) :
          IF v = Panic
          THEN unit_pc' = "panic" /\ UNCHANGED pad_l_bits
          ELSE unit_pc' = "k" /\ pad_l_bits' = v
    /\ UNCHANGED << pad_l_bits_1, pad_k, pad_length_field >>
    /\ PadLenFrame

\* let k_bits = (512 + 448 - (l_bits + 1) % 512) % 512; let k = k_bits / 8;
PadKStep ==
    /\ unit_pc = "k"
    /\ \E v \in Outcomes(usize_add(pad_l_bits, 1)) :
          IF v = Panic
          THEN unit_pc' = "panic" /\ UNCHANGED << pad_l_bits_1, pad_k >>
          ELSE /\ unit_pc' = "length_field"
               /\ pad_l_bits_1' = v
               /\ pad_k' = PadKOf(v)
    /\ UNCHANGED << pad_l_bits, pad_length_field >>
    /\ PadLenFrame

\* padded.extend_from_slice(&(l_bits as u64).to_be_bytes());
PadLengthFieldStep ==
    /\ unit_pc = "length_field"
    /\ pad_length_field' = u64_limbs_to_be_bytes(pad_l_bits)
    /\ unit_pc' = "done"
    /\ UNCHANGED << pad_l_bits, pad_l_bits_1, pad_k >>
    /\ PadLenFrame

NextPadLen == PadLBitsStep \/ PadKStep \/ PadLengthFieldStep

\* The length arithmetic of padding, for lengths up to 2^63 - 1.
SpecPadLen == InitPadLen /\ [][NextPadLen]_vars

(***************************************************************************)
(* rotr called on its own                                                  *)
(***************************************************************************)

\* The words rotr is called on: the word of the test rotr_works, the words
\* with no, one, two and all bits set, and two words of IHV.
RotrWords ==
    { Word(\h1234, \h5678), Word(0, 0), Word(0, 1), Word(\h8000, 0),
      Word(\h8000, 1), Word(\hffff, \hffff), IHV[1], IHV[8] }

\* The shift amounts rotr is called with: every n below w, and some from w on.
RotrAmounts == 0..(W + 8)

\* rotr(rotr_n, rotr_x) about to run.
InitRotr ==
    /\ Start([i \in Invocations |-> Idle])
    /\ unit_pc = "rotr"
    /\ rotr_n \in RotrAmounts
    /\ rotr_x \in RotrWords
    /\ rotr_ret = None
    /\ message_schedule_w = None
    /\ working = None
    /\ temp_1 = None
    /\ temp_2 = None
    /\ round_t = None
    /\ pad_len = None
    /\ pad_l_bits = None
    /\ pad_l_bits_1 = None
    /\ pad_k = None
    /\ pad_length_field = None

\* The body of rotr: the assertion, then the value returned.
RotrStep ==
    /\ unit_pc = "rotr"
    /\ LET r == rotr(rotr_n, rotr_x)
       IN  IF r = Panic
           THEN unit_pc' = "panic" /\ UNCHANGED rotr_ret
           ELSE unit_pc' = "done" /\ rotr_ret' = r
    /\ UNCHANGED << entry, message, pc, padded, blocks, hash_value, index_i,
                    digest, steps, rotr_n, rotr_x, message_schedule_w, working,
                    temp_1, temp_2, round_t, pad_len, pad_l_bits, pad_l_bits_1,
                    pad_k, pad_length_field >>

NextRotr == RotrStep

\* One call of rotr.
SpecRotr == InitRotr /\ [][NextRotr]_vars

(***************************************************************************)
(* FIPS 180-4, SHA-256, as the standard states it (sections 5.1.1, 5.2.1,   *)
(* 6.2.2), for messages of fewer than 2^32 bits.  Words and the functions   *)
(* of section 4.1.2 are those above.                                        *)
(***************************************************************************)

\* s after F(s, lo), F(., lo + 1), ..., F(., hi - 1), applied in that order.
RECURSIVE Iterate(_, _, _, _)
Iterate(F(_, _), s, lo, hi) ==
    IF hi <= lo THEN s
    ELSE IF hi - lo = 1 THEN F(s, lo)
    ELSE LET first == Iterate(F, s, lo, (lo + hi) \div 2)
         IN  IF Len(first) = 0 THEN first
             ELSE Iterate(F, first, (lo + hi) \div 2, hi)

\* 5.1.1: the smallest non-negative k with l + 1 + k = 448 (mod 512).
FipsK(l) == CHOOSE k \in 0..511 : (l + 1 + k) % 512 = 448

\* 5.1.1: the message, the bit "1", k zero bits, then l as a 64-bit integer.
FipsPadded(m) ==
    LET l == 8 * Len(m)
    IN  ((m \o <<128>>) \o [ j \in 1..(((FipsK(l) + 1) \div 8) - 1) |-> 0 ])
            \o [ j \in 1..8 |-> IF j <= 4 THEN 0 ELSE (l \div (256 ^ (8 - j))) % 256 ]

\* 5.2.1: word j (0..15) of block i (1..N) of the padded message.
FipsM(pm, i, j) ==
    LET at == 64 * (i - 1) + 4 * j
    IN  Word(256 * pm[at + 1] + pm[at + 2], 256 * pm[at + 3] + pm[at + 4])

\* 6.2.2 step 1: W_t appended to W_0 .. W_(t-1), for block i.
FipsW(pm, i, ws, t) ==
    Append(ws,
        IF t <= 15 THEN FipsM(pm, i, t)
        ELSE wrapping_add(
                 wrapping_add(delta_1_256(ws[t - 2 + 1]), ws[t - 7 + 1]),
                 wrapping_add(delta_0_256(ws[t - 15 + 1]), ws[t - 16 + 1])))

\* 6.2.2 step 3: one round, all eight working variables replaced at once.
FipsRound(ws, s, t) ==
    LET T1 == wrapping_add(
                  wrapping_add(s[8], sum_1_256(s[5])),
                  wrapping_add(ch(s[5], s[6], s[7]),
                               wrapping_add(WORDS_K[t + 1], ws[t + 1])))
        T2 == wrapping_add(sum_0_256(s[1]), maj(s[1], s[2], s[3]))
    IN  << wrapping_add(T1, T2), s[1], s[2], s[3],
           wrapping_add(s[4], T1), s[5], s[6], s[7] >>

\* 6.2.2: H(i) from H(i-1) and block i.
FipsBlock(pm, H, i) ==
    LET ws == Iterate(LAMBDA w, t : FipsW(pm, i, w, t), << FipsM(pm, i, 0) >>, 1, 64)
        s  == Iterate(LAMBDA v, t : FipsRound(ws, v, t), H, 0, 64)
    IN  [ j \in 1..8 |-> wrapping_add(s[j], H[j]) ]

\* The message digest H(N), as 32 bytes, each word most significant byte first.
FipsDigest(m) ==
    LET pm == FipsPadded(m)
        H  == Iterate(LAMBDA h, i : FipsBlock(pm, h, i), IHV, 1, (Len(pm) \div 64) + 1)
    IN  [ j \in 1..32 |->
            LET x == H[((j - 1) \div 4) + 1]
                r == (j - 1) % 4
            IN  IF r = 0 THEN Hi(x) \div 256
                ELSE IF r = 1 THEN Hi(x) % 256
                ELSE IF r = 2 THEN Lo(x) \div 256
                ELSE Lo(x) % 256 ]

\* e3b0c442 98fc1c14 9afbf4c8 996fb924 27ae41e4 649b934c a495991b 7852b855
DigestOfEmpty ==
    << \he3, \hb0, \hc4, \h42, \h98, \hfc, \h1c, \h14,
       \h9a, \hfb, \hf4, \hc8, \h99, \h6f, \hb9, \h24,
       \h27, \hae, \h41, \he4, \h64, \h9b, \h93, \h4c,
       \ha4, \h95, \h99, \h1b, \h78, \h52, \hb8, \h55 >>

\* ba7816bf 8f01cfea 414140de 5dae2223 b00361a3 96177a9c b410ff61 f20015ad
DigestOfAbc ==
    << \hba, \h78, \h16, \hbf, \h8f, \h01, \hcf, \hea,
       \h41, \h41, \h40, \hde, \h5d, \hae, \h22, \h23,
       \hb0, \h03, \h61, \ha3, \h96, \h17, \h7a, \h9c,
       \hb4, \h10, \hff, \h61, \hf2, \h00, \h15, \had >>

\* 248d6a61 d20638b8 e5c02693 0c3e6039 a33ce459 64ff2167 f6ecedd4 19db06c1
DigestOfNist2 ==
    << \h24, \h8d, \h6a, \h61, \hd2, \h06, \h38, \hb8,
       \he5, \hc0, \h26, \h93, \h0c, \h3e, \h60, \h39,
       \ha3, \h3c, \he4, \h59, \h64, \hff, \h21, \h67,
       \hf6, \hec, \hed, \hd4, \h19, \hdb, \h06, \hc1 >>

\* 6a09e667 bb67ae85 3c6ef372 a54ff53a 510e527f 9b05688c 1f83d9ab 5be0cd19
IhvBytes ==
    << \h6a, \h09, \he6, \h67, \hbb, \h67, \hae, \h85,
       \h3c, \h6e, \hf3, \h72, \ha5, \h4f, \hf5, \h3a,
       \h51, \h0e, \h52, \h7f, \h9b, \h05, \h68, \h8c,
       \h1f, \h83, \hd9, \hab, \h5b, \he0, \hcd, \h19 >>

(***************************************************************************)
(* Properties                                                              *)
(***************************************************************************)

\* The invocations that are calls of sha256.
Sha256Calls == { i \in Invocations : entry[i] = "sha256" }

\* Whether padding has returned in invocation i.
Padded(i) == pc[i] \in {"message_to_blocks", "compute_hash", "blocks", "done"}

\* Whether message_to_blocks has returned in invocation i.
Split(i) == pc[i] \in {"compute_hash", "blocks", "done"}

\* C1: every call of sha256, the empty message included, runs to its return
\* and returns 32 bytes: no assertion reached from it fails and no index is
\* out of range (it never panics), and until it has returned it stands where
\* one of its steps applies.
C1_Sha256Total ==
    \A i \in Sha256Calls :
        /\ pc[i] \in {"padding", "message_to_blocks", "compute_hash", "blocks", "done"}
        /\ ShiftAssertsHold
        /\ pc[i] = "blocks" =>
              /\ index_i[i] <= Len(blocks[i])
              /\ Len(hash_value[i]) = index_i[i] + 1
        /\ pc[i] = "done" =>
              /\ Len(digest[i]) = 32
              /\ \A j \in 1..32 : digest[i][j] \in 0..255

\* The empty message has been hashed.
C1_Witness ==
    \E i \in Sha256Calls :
        message[i] = << >> /\ pc[i] = "done" /\ Len(digest[i]) = 32

\* C2: the digest sha256 returns is the FIPS 180-4 SHA-256 digest of the
\* message, and the digests of "", "abc" and the 56-byte NIST message are the
\* published ones.
C2_MatchesFips ==
    \A i \in Sha256Calls :
        pc[i] = "done" =>
            /\ digest[i] = FipsDigest(message[i])
            /\ message[i] = << >> => digest[i] = DigestOfEmpty
            /\ message[i] = Abc => digest[i] = DigestOfAbc
            /\ message[i] = Nist2 => digest[i] = DigestOfNist2

\* The 56-byte NIST message has been hashed to its published digest.
C2_Witness ==
    \E i \in Sha256Calls :
        message[i] = Nist2 /\ pc[i] = "done" /\ digest[i] = DigestOfNist2

\* C3: padding returns for every message, and what it returns has a length
\* that is a positive multiple of 64 and at least the message's length + 9.
C3_PaddedLength ==
    \A i \in Sha256Calls :
        pc[i] # "padding" =>
            /\ padded[i] # None
            /\ Len(padded[i]) % 64 = 0
            /\ Len(padded[i]) >= Len(message[i]) + 9
            /\ Len(padded[i]) >= 64

\* The empty message has been padded, to 64 bytes.
C3_Witness ==
    \E i \in Sha256Calls :
        message[i] = << >> /\ Padded(i) /\ Len(padded[i]) = 64

\* C4: the padded message is the message, then 0x80, then zeros up to the last
\* 8 bytes, which hold 8 * len(m) as a 64-bit big-endian integer.
C4_PaddedLayout ==
    \A i \in Sha256Calls :
        pc[i] # "padding" =>
            LET L == Len(message[i])
                n == Len(padded[i])
            IN  /\ n >= L + 9
                /\ \A j \in 1..L : padded[i][j] = message[i][j]
                /\ padded[i][L + 1] = 128
                /\ \A j \in (L + 2)..(n - 8) : padded[i][j] = 0
                /\ \A j \in 1..4 : padded[i][n - 8 + j] = 0
                /\ \A j \in 5..8 :
                      padded[i][n - 8 + j] = ((8 * L) \div (256 ^ (8 - j))) % 256

\* A message of 64 bytes has been padded: 63 zero-fill bytes, and a length
\* field whose last two bytes are 2 and 0 (8 * 64 = 512).
C4_Witness ==
    \E i \in Sha256Calls :
        /\ Len(message[i]) = 64
        /\ Padded(i)
        /\ padded[i][127] = 2
        /\ padded[i][128] = 0

\* C5 as stated: a message of 56 bytes pads into exactly one 64-byte block.
C5_Original ==
    \A i \in Sha256Calls :
        Len(message[i]) = 56 =>
            /\ Padded(i) => Len(padded[i]) = 64
            /\ Split(i) => Len(blocks[i]) = 1

\* C5, amended: a message of 56 bytes pads into exactly two 64-byte blocks
\* (padding returns 128 bytes, message_to_blocks 2 blocks).
C5_TwoBlocksAt56 ==
    \A i \in Sha256Calls :
        Len(message[i]) = 56 =>
            /\ pc[i] # "padding" => Len(padded[i]) = 128
            /\ pc[i] \notin {"padding", "message_to_blocks"} =>
                  /\ Len(blocks[i]) = 2
                  /\ \A j \in 1..2 : Len(blocks[i][j]) = 64

\* A message of 56 bytes has been padded and split.
C5_Witness ==
    \E i \in Sha256Calls :
        Len(message[i]) = 56 /\ Split(i) /\ Len(blocks[i]) = 2

\* C6: a message of 64 bytes pads into exactly two 64-byte blocks (padding
\* returns 128 bytes, message_to_blocks 2 blocks).
C6_TwoBlocksAt64 ==
    \A i \in Sha256Calls :
        Len(message[i]) = 64 =>
            /\ pc[i] # "padding" => Len(padded[i]) = 128
            /\ pc[i] \notin {"padding", "message_to_blocks"} =>
                  /\ Len(blocks[i]) = 2
                  /\ \A j \in 1..2 : Len(blocks[i][j]) = 64

\* A message of 64 bytes has been padded and split.
C6_Witness ==
    \E i \in Sha256Calls :
        Len(message[i]) = 64 /\ Split(i) /\ Len(blocks[i]) = 2
\* All that invocation i holds.
Locals(i) ==
    << entry[i], message[i], pc[i], padded[i], blocks[i], hash_value[i],
       index_i[i], digest[i] >>

\* C7: calls of sha256 that run concurrently, their steps interleaved in any
\* order, each return the digest a call running alone returns for the same
\* message (so equal messages give equal digests), none panics, and a step of
\* one invocation leaves every other invocation's data as it was.
C7_ConcurrentCallsIndependent ==
    /\ [](\A i \in Invocations :
            /\ pc[i] # "panic"
            /\ pc[i] = "done" => digest[i] = sha256(message[i]))
    /\ [][\E i \in Invocations :
            \A j \in Invocations \ {i} : Locals(j)' = Locals(j)]_vars

\* Two calls on different messages, running at once, have both returned.
C7_Witness ==
    /\ pc[1] = "done"
    /\ pc[2] = "done"
    /\ message[1] # message[2]
    /\ digest[1] # digest[2]

\* C8: compute_hash on no block pushes no layer (hash_value stays <<IHV>>, no
\* pass of the loop runs) and returns the bytes of IHV, each word most
\* significant byte first.
C8_NoBlocksGivesIhv ==
    \A i \in Invocations :
        entry[i] = "compute_hash" /\ blocks[i] = << >> =>
            /\ pc[i] \in {"compute_hash", "blocks", "done"}
            /\ pc[i] \in {"blocks", "done"} =>
                  hash_value[i] = <<IHV>> /\ index_i[i] = 0
            /\ pc[i] = "done" => digest[i] = IhvBytes

\* compute_hash on no block has returned.
C8_Witness ==
    \E i \in Invocations :
        /\ entry[i] = "compute_hash"
        /\ blocks[i] = << >>
        /\ pc[i] = "done"
        /\ Len(digest[i]) = 32

\* C9: in compute_hash, after j blocks hash_value holds j + 1 hash values of 8
\* words, the first IHV and each next one the layer of the one before it and
\* the block of that index; the digest is that of the last; and a step either
\* leaves hash_value alone or pushes one value after those it holds, which
\* stay as they are, as index_i goes up by one.
C9_ChainedInOrder ==
    /\ [](\A i \in Invocations :
            pc[i] \in {"blocks", "done"} =>
                /\ index_i[i] <= Len(blocks[i])
                /\ Len(hash_value[i]) = index_i[i] + 1
                /\ hash_value[i][1] = IHV
                /\ \A j \in 1..index_i[i] :
                      /\ Len(hash_value[i][j + 1]) = 8
                      /\ hash_value[i][j + 1]
                            = BlockLayer(hash_value[i][j], blocks[i][j])
                /\ pc[i] = "done" =>
                      /\ index_i[i] = Len(blocks[i])
                      /\ digest[i] = DigestOf(hash_value[i][Len(blocks[i]) + 1]))
    /\ [][\A i \in Invocations :
            pc[i] = "blocks" =>
                \/ /\ hash_value'[i] = hash_value[i]
                   /\ index_i'[i] = index_i[i]
                \/ /\ index_i'[i] = index_i[i] + 1
                   /\ Len(hash_value'[i]) = Len(hash_value[i]) + 1
                   /\ SubSeq(hash_value'[i], 1, Len(hash_value[i]))
                         = hash_value[i]]_vars

\* A call on three blocks has returned, with four hash values held.
C9_Witness ==
    \E i \in Invocations :
        /\ pc[i] = "done"
        /\ Len(blocks[i]) = 3
        /\ Len(hash_value[i]) = 4

\* The number of bytes between the 0x80 byte and the 8-byte length field.
ZeroFill(i) == Len(padded[i]) - Len(message[i]) - 9

\* C10 as stated: k is the least k >= 0 with 8 * len(m) + 1 + 8 * k = 448
\* (mod 512).
C10_Original ==
    \A i \in Sha256Calls :
        Padded(i) =>
            LET L == Len(message[i])
                k == ZeroFill(i)
            IN  /\ k >= 0
                /\ (8 * L + 1 + 8 * k) % 512 = 448
                /\ \A k2 \in 0..(k - 1) : (8 * L + 1 + 8 * k2) % 512 # 448

\* C10, amended: the bytes between the 0x80 byte and the length field are k
\* zeros, k the least k >= 0 with 8 * len(m) + 8 + 8 * k = 448 (mod 512): the
\* 0x80 byte counts for 8 bits, the "1" and seven zeros.
C10_MinimalZeroFill ==
    \A i \in Sha256Calls :
        pc[i] # "padding" =>
            LET L == Len(message[i])
                k == ZeroFill(i)
            IN  /\ k >= 0
                /\ \A j \in 1..k : padded[i][L + 1 + j] = 0
                /\ (8 * L + 8 + 8 * k) % 512 = 448
                /\ \A k2 \in 0..(k - 1) : (8 * L + 8 + 8 * k2) % 512 # 448

\* Padding has run on 56 bytes, with the most zero fill there can be.
C10_Witness ==
    \E i \in Sha256Calls :
        Len(message[i]) = 56 /\ Padded(i) /\ ZeroFill(i) = 63

\* Bit j of word x, bit 0 the least significant.
WordBit(x, j) == IF j < 16 THEN Bit(Lo(x), j) ELSE Bit(Hi(x), j - 16)

\* The number whose bit j - lo is b[j], for j in lo..hi.
RECURSIVE BitsValue(_, _, _)
BitsValue(b, lo, hi) ==
    IF hi < lo THEN 0 ELSE b[lo] + 2 * BitsValue(b, lo + 1, hi)

\* The word whose bit j is b[j], for j in 0..31.
WordOfBits(b) == Word(BitsValue(b, 16, 31), BitsValue(b, 0, 15))

\* The carries of the binary addition of x and y: c[j] goes into bit j, and
\* c[32] is the carry out of the word.
RECURSIVE Carries(_, _, _)
Carries(x, y, c) ==
    IF Len(c) = 33 THEN c
    ELSE LET j == Len(c) - 1
         IN  Carries(x, y,
                 Append(c, (WordBit(x, j) + WordBit(y, j) + c[Len(c)]) \div 2))

\* x + y modulo 2^32, bit by bit: the carry out of bit 31 is dropped.
SumMod32(x, y) ==
    LET c == Carries(x, y, <<0>>)
    IN  WordOfBits([ j \in 0..31 |-> (WordBit(x, j) + WordBit(y, j) + c[j + 1]) % 2 ])

\* Whether x + y is 2^32 or more.
Overflows(x, y) == Carries(x, y, <<0>>)[33] = 1

\* T1 = h + Sigma1(e) + Ch(e, f, g) + K_t + W_t modulo 2^32, from the values
\* before the round.
SimT1(v, w, t) ==
    SumMod32(v[8],
        SumMod32(sum_1_256(v[5]),
            SumMod32(ch(v[5], v[6], v[7]), SumMod32(WORDS_K[t + 1], w[t + 1]))))

\* T2 = Sigma0(a) + Maj(a, b, c) modulo 2^32, from the values before the round.
SimT2(v) == SumMod32(sum_0_256(v[1]), maj(v[1], v[2], v[3]))

\* (a, b, c, d, e, f, g, h) <- (T1 + T2, a, b, c, d + T1, e, f, g), all at once.
SimultaneousUpdate(v, w, t) ==
    << SumMod32(SimT1(v, w, t), SimT2(v)), v[1], v[2], v[3],
       SumMod32(v[4], SimT1(v, w, t)), v[5], v[6], v[7] >>

\* Whether x is a 32-bit word.
IsWord(x) == Len(x) = 2 /\ Hi(x) \in 0..(Half - 1) /\ Lo(x) \in 0..(Half - 1)

\* C11: each of the 64 rounds, which assigns the working variables one after
\* another, leaves in them the eight values of the simultaneous update
\* (a, b, c, d, e, f, g, h) <- (T1 + T2, a, b, c, d + T1, e, f, g), with T1 and
\* T2 computed from the values before the round and every addition taken
\* modulo 2^32: no round traps, and the variables stay 32-bit words.
C11_SequentialIsSimultaneous ==
    /\ [](unit_pc = "rounds" =>
            /\ Len(working) = 8
            /\ \A j \in 1..8 : IsWord(working[j]))
    /\ [][unit_pc = "rounds" =>
            /\ unit_pc' = "rounds"
            /\ round_t' = round_t + 1
            /\ temp_1' = SimT1(working, message_schedule_w, round_t)
            /\ temp_2' = SimT2(working)
            /\ working' = SimultaneousUpdate(working, message_schedule_w, round_t)]_vars

\* A round has run in which temp_1 + temp_2 passed 2^32 and a holds the sum
\* less 2^32; and all 64 rounds of a block have run.
C11_Witness ==
    /\ unit_pc = "rounds"
    /\ round_t = 64
    /\ Overflows(temp_1, temp_2)
    /\ working[1] = SumMod32(temp_1, temp_2)

\* The place (from 1) of the first block of bs whose length is not 64, or 0
\* when every block has 64 bytes.
FirstMalformed(bs) ==
    IF \A j \in 1..Len(bs) : Len(bs[j]) = 64 THEN 0
    ELSE CHOOSE j \in 1..Len(bs) :
            /\ Len(bs[j]) # 64
            /\ \A h \in 1..(j - 1) : Len(bs[h]) = 64

\* How the message schedule of a block of other than 64 bytes fails: the
\* assertion of block_to_words (length no multiple of 4), an index out of
\* range in the 48 pushes (fewer than 15 words), or the assertion that the
\* schedule has 64 words (15 words, or more than 16).
FailsFatally(block) ==
    LET w0 == block_to_words(block)
        w  == SchedulePasses(w0, 16, 64)
    IN  /\ MessageSchedule(block) = Panic
        /\ \/ Len(block) % 4 # 0 /\ w0 = Panic
           \/ Len(block) % 4 = 0 /\ Len(block) < 60 /\ w = Panic
           \/ /\ Len(block) % 4 = 0
              /\ Len(block) >= 60
              /\ w # Panic
              /\ Len(w) = (Len(block) \div 4) + 48
              /\ Len(w) # 64

\* C12: compute_hash returns no digest when a block has a length other than
\* 64 bytes: the blocks before the first such block are processed, that block
\* makes the call panic (in block_to_words, at a schedule index, or at the
\* assertion on the schedule's length), no layer is pushed for it and no
\* digest is ever bound.
C12_MalformedBlockPanics ==
    /\ [](\A i \in Invocations :
            entry[i] = "compute_hash" /\ FirstMalformed(blocks[i]) > 0 =>
                /\ pc[i] \in {"compute_hash", "blocks", "panic"}
                /\ digest[i] = None
                /\ FailsFatally(blocks[i][FirstMalformed(blocks[i])])
                /\ pc[i] \in {"blocks", "panic"} =>
                      /\ index_i[i] < FirstMalformed(blocks[i])
                      /\ Len(hash_value[i]) = index_i[i] + 1
                /\ pc[i] = "panic" => index_i[i] = FirstMalformed(blocks[i]) - 1)
    /\ [][\A i \in Invocations :
            /\ entry[i] = "compute_hash"
            /\ pc[i] = "blocks"
            /\ index_i[i] + 1 = FirstMalformed(blocks[i])
            => pc'[i] = "panic"]_vars

\* compute_hash has panicked on a second block of 68 bytes, whose schedule
\* would have 65 words, after pushing the layer of the first block.
C12_Witness ==
    \E i \in Invocations :
        /\ entry[i] = "compute_hash"
        /\ pc[i] = "panic"
        /\ Len(blocks[i]) = 2
        /\ Len(blocks[i][2]) = 68
        /\ index_i[i] = 1
        /\ Len(hash_value[i]) = 2

\* The sizes padding has asked an allocation of, in invocation i: the buffer
\* (to_vec) and the zero bytes (vec!).
AllocSizes(i) ==
    LET a == SelectSeq(steps[i], LAMBDA st : st[1] \in {"to_vec", "vec"})
    IN  [ j \in 1..Len(a) |-> a[j][2] ]

\* The steps of invocation i with the buffer's size taken from the message's
\* length on: what is left of the steps once the length is set aside.
RelSteps(i) ==
    [ j \in 1..Len(steps[i]) |->
        IF steps[i][j][1] = "to_vec"
        THEN << "to_vec", steps[i][j][2] - Len(message[i]) >>
        ELSE steps[i][j] ]

\* C13: padding sizes its buffer once, to the message's length + 72 bytes, and
\* k sets no allocation size, no growth of the buffer and no trip count: the
\* steps of two calls, the messages' lengths set aside, are the same whatever
\* their values of k.
C13_PresizedAndObliviousOfK ==
    \A i \in Sha256Calls :
        Padded(i) =>
            /\ AllocSizes(i) = << Len(message[i]) + 72 >>
            /\ \A j \in Sha256Calls : Padded(j) => RelSteps(i) = RelSteps(j)

\* x divided by 8 (x >> 3), on four 16-bit limbs.
Shr3(x) ==
    [ j \in 1..4 |->
        (x[j] \div 8) + (IF j > 1 THEN (x[j - 1] % 8) * (2 ^ 13) ELSE 0) ]

\* Whether v is exactly 8 * L: a multiple of 8 whose eighth is L.
IsEightTimes(v, L) == v[4] % 8 = 0 /\ Shr3(v) = L

\* The number 8 big-endian bytes hold, as four limbs.
FieldValue(f) ==
    << f[1] * 256 + f[2], f[3] * 256 + f[4], f[5] * 256 + f[6], f[7] * 256 + f[8] >>

\* Whether L is at most 2^61 - 1: its three top bits are clear.
Below2To61(L) == L[1] < 2 ^ 13

\* The least k >= 0 with 8 * L + 8 + 8 * k = 448 (mod 512), from L itself.
TrueK(L) ==
    CHOOSE kk \in 0..63 :
        /\ (8 * (L[4] % 64) + 8 + 8 * kk) % 512 = 448
        /\ \A k2 \in 0..(kk - 1) : (8 * (L[4] % 64) + 8 + 8 * k2) % 512 # 448

\* C14: for a length L of at most 2^61 - 1 bytes, L * 8 and l_bits + 1 do not
\* wrap in 64 bits (and so do not panic either): l_bits is exactly 8 * L,
\* l_bits + 1 is one more, k is the k of the true bit length and the length
\* field holds exactly 8 * L.  From L = 2^61 on, L * 8 does not fit: the call
\* panics or goes on with an l_bits that is not 8 * L (0 for L = 2^61).
C14_NoWrapUpTo2To61 ==
    unit_pc \in {"l_bits", "k", "length_field", "done", "panic"} =>
        IF Below2To61(pad_len)
        THEN /\ unit_pc # "panic"
             /\ unit_pc \in {"k", "length_field", "done"} =>
                   IsEightTimes(pad_l_bits, pad_len)
             /\ unit_pc \in {"length_field", "done"} =>
                   /\ pad_l_bits_1 = [pad_l_bits EXCEPT ![4] = @ + 1]
                   /\ pad_k = TrueK(pad_len)
             /\ unit_pc = "done" =>
                   IsEightTimes(FieldValue(pad_length_field), pad_len)
        ELSE /\ usize_mul(pad_len, 8)[2] > 0
             /\ unit_pc \in {"k", "length_field", "done"} =>
                   /\ ~IsEightTimes(pad_l_bits, pad_len)
                   /\ pad_len = UsizeNear(61, 0) => pad_l_bits = <<0, 0, 0, 0>>

\* The arithmetic has run on the length 2^61 - 1: the length field holds
\* 2^64 - 8 and k is 56.
C14_Witness ==
    /\ unit_pc = "done"
    /\ pad_len = UsizeNear(61, -1)
    /\ pad_length_field = <<255, 255, 255, 255, 255, 255, 255, 248>>
    /\ pad_k = 56

\* The vectors of the test rotr_works, as (n, x, expected).
RotrVectors ==
    { << 0,  Word(\h1234, \h5678), Word(\h1234, \h5678) >>,
      << 4,  Word(\h1234, \h5678), Word(\h8123, \h4567) >>,
      << 8,  Word(\h1234, \h5678), Word(\h7812, \h3456) >>,
      << 16, Word(\h1234, \h5678), Word(\h5678, \h1234) >>,
      << 24, Word(\h1234, \h5678), Word(\h3456, \h7812) >>,
      << 31, Word(\h1234, \h5678), Word(\h2468, \hacf0) >> }

\* C15: for n below 32, rotr(n, x) returns x rotated right by n bits: bit j of
\* the result is bit (j + n) mod 32 of x; for n = 0, where the left shift is
\* by w - n = 32, that is x itself; the vectors of rotr_works come out as
\* expected.  For n of 32 or more the assertion fails and nothing is returned.
C15_RotrIsRotation ==
    \/ unit_pc = "rotr" /\ rotr_ret = None
    \/ /\ unit_pc = "done"
       /\ rotr_n < 32
       /\ IsWord(rotr_ret)
       /\ \A j \in 0..31 :
             WordBit(rotr_ret, j) = WordBit(rotr_x, (j + rotr_n) % 32)
       /\ rotr_n = 0 => rotr_ret = rotr_x
       /\ \A v \in RotrVectors :
             rotr_n = v[1] /\ rotr_x = v[2] => rotr_ret = v[3]
    \/ /\ unit_pc = "panic"
       /\ rotr_n >= 32
       /\ rotr_ret = None

\* rotr(0, 0x12345678) has returned 0x12345678.
C15_Witness ==
    /\ unit_pc = "done"
    /\ rotr_n = 0
    /\ rotr_x = Word(\h1234, \h5678)
    /\ rotr_ret = rotr_x
====
